---------------------------- MODULE Spec2Model ----------------------------
(***************************************************************************)
(* A model of the predicate / pattern-matching engine of                   *)
(* src/libredex/Match.h (namespace m).                                     *)
(*                                                                         *)
(* A predicate is a match_t value {fn, p0, p1}: an evaluation function     *)
(* and zero, one or two bound parameters, stored BY VALUE in the struct.   *)
(* match_t::matches(t) calls fn(t, p0, p1).  The model keeps a predicate   *)
(* as a record [fn, p0, p1] whose fn field names the lambda, and matches   *)
(* dispatches on it.  An evaluation yields a boolean, or ends the process  *)
(* in always_assert; the model's outcome also carries the sequence of      *)
(* match_t::matches calls made, in call order.                             *)
(*                                                                         *)
(* The state machine is a pass using the engine: it constructs a           *)
(* predicate with a factory, may change its own container, and evaluates   *)
(* the predicate against an entity of the graph.                           *)
(***************************************************************************)
EXTENDS Integers, Sequences, FiniteSets, TLC

VARIABLES
    graph,      \* the entity graph (instructions, methods, classes, types)
    oracle,     \* the answers of can_delete / can_rename / keep / is_seed
    container,  \* the caller's container, the argument of m::in
    pred,       \* the match_t value the pass holds, NoPred before construction
    last,       \* the last evaluation: its subject, the state it read, its outcome
    prev,       \* the evaluation before the last one
    pc          \* "idle", "built", "evaluated", "aborted"

vars == <<graph, oracle, container, pred, last, prev, pc>>

-----------------------------------------------------------------------------
(* Bounds of the model *)

\* longest instruction stream of a method
MaxLen == 3
\* longest tuple of instruction predicates given to has_opcodes
MaxK == 2
\* longest vmethods / dmethods list of a class
MaxMembers == 2
\* largest count n given to the *_n_* quantifiers
MaxN == 2
\* nesting depth of operator! and the family factories over the atomic
\* instruction predicates
MaxDepth == 1

-----------------------------------------------------------------------------
(* The entity model: DexOpcode, IRInstruction, DexMethod, DexClass, DexType *)

NEW_INSTANCE == "NEW_INSTANCE"
INVOKE_VIRTUAL == "INVOKE_VIRTUAL"
INVOKE_DIRECT == "INVOKE_DIRECT"
INVOKE_DIRECT_RANGE == "INVOKE_DIRECT_RANGE"
INVOKE_STATIC == "INVOKE_STATIC"
INVOKE_STATIC_RANGE == "INVOKE_STATIC_RANGE"
CONST_STRING == "CONST_STRING"
RETURN_VOID == "RETURN_VOID"

InvokeOpcodes ==
    {INVOKE_VIRTUAL, INVOKE_DIRECT, INVOKE_DIRECT_RANGE, INVOKE_STATIC,
     INVOKE_STATIC_RANGE}

DexOpcode == InvokeOpcodes \cup {NEW_INSTANCE, CONST_STRING, RETURN_VOID}

\* is_invoke(DexOpcode): any invoke opcode
is_invoke(op) == op \in InvokeOpcodes

\* the subject kinds: the template parameter T of match_t<T, P>
IRInstruction == "IRInstruction"
DexMethod == "DexMethod"
DexClass == "DexClass"
DexType == "DexType"

\* entity references (const T*)
Insn(i) == [kind |-> IRInstruction, id |-> i]
Method(m) == [kind |-> DexMethod, id |-> m]
Class(c) == [kind |-> DexClass, id |-> c]
Type(t) == [kind |-> DexType, id |-> t]

\* the absent method operand / the unresolved class (nullptr)
Null == 0

\* IRInstruction::opcode()
opcode(insn) == graph.insn[insn.id].op

\* IRInstruction::has_method(): the instruction carries a method operand,
\* which is the case exactly for the invoke family
has_method(insn) == graph.insn[insn.id].method # Null

\* IRInstruction::get_method()
get_method(insn) == Method(graph.insn[insn.id].method)

\* DexMethod::get_name()->c_str()
get_name(t) == graph.name[t.id]

\* DexMethod::get_code(): [null |-> TRUE] for nullptr
get_code(meth) == graph.code[meth.id]

\* InstructionIterable(code): the instructions in the order they are laid out
InstructionIterable(code) == [k \in 1..Len(code.insns) |-> Insn(code.insns[k])]

\* DexClass::get_vmethods(), DexClass::get_dmethods()
get_vmethods(cls) == [k \in 1..Len(graph.vmethods[cls.id]) |-> Method(graph.vmethods[cls.id][k])]

get_dmethods(cls) == [k \in 1..Len(graph.dmethods[cls.id]) |-> Method(graph.dmethods[cls.id][k])]

\* type_class(const DexType*): the class definition of the type, or nullptr
type_class(t) == graph.type_class[t.id]

-----------------------------------------------------------------------------
(* Outcomes of an evaluation *)

\* the evaluation returned the boolean v, after the calls tr
Ret(v, tr) == [aborted |-> FALSE, value |-> v, trace |-> tr]

\* the evaluation did not return: always_assert failed ("always_assert") or
\* vector::at threw ("out_of_range"), after the calls tr; there is no value
Fatal(why, tr) == [aborted |-> TRUE, why |-> why, trace |-> tr]

\* b evaluated after a returned: the calls of both, the outcome of b
Then(a, b) == [b EXCEPT !.trace = a.trace \o @]

\* a && b of C++: b is evaluated only when a returned true
AndAlso(a, b) ==
    IF a.aborted \/ ~a.value THEN a ELSE Then(a, b)

\* a || b of C++: b is evaluated only when a returned false
OrElse(a, b) ==
    IF a.aborted \/ a.value THEN a ELSE Then(a, b)

RECURSIVE matches(_, _, _)

-----------------------------------------------------------------------------
(* Logical combinators *)

operator_not(pred0) == [T |-> pred0.T, fn |-> "operator!", p0 |-> pred0]

fn_not(t, p0, rl) ==
    LET a == matches(p0, t, rl)
    IN  IF a.aborted THEN a ELSE Ret(~a.value, a.trace)

operator_or(pred0, pred1) ==
    [T |-> pred0.T, fn |-> "operator||", p0 |-> pred0, p1 |-> pred1]

fn_or(t, p0, p1, rl) == OrElse(matches(p0, t, rl), matches(p1, t, rl))

operator_and(pred0, pred1) ==
    [T |-> pred0.T, fn |-> "operator&&", p0 |-> pred0, p1 |-> pred1]

\* fn_and with & written for &&: both operands are evaluated
fn_and_eager(t, p0, p1, rl) ==
    LET a == matches(p0, t, rl)
        b == matches(p1, t, rl)
    IN  IF a.aborted THEN a
        ELSE IF b.aborted THEN Then(a, b)
        ELSE Ret(a.value /\ b.value, a.trace \o b.trace)

fn_and(t, p0, p1, rl) == AndAlso(matches(p0, t, rl), matches(p1, t, rl))

operator_xor(pred0, pred1) ==
    [T |-> pred0.T, fn |-> "operator^", p0 |-> pred0, p1 |-> pred1]

\* fn_xor with | written for ^
fn_xor_as_or(t, p0, p1, rl) ==
    LET first == IF rl THEN matches(p1, t, rl) ELSE matches(p0, t, rl)
        second == IF rl THEN matches(p0, t, rl) ELSE matches(p1, t, rl)
    IN  IF first.aborted THEN first
        ELSE IF second.aborted THEN Then(first, second)
        ELSE Ret(first.value \/ second.value, first.trace \o second.trace)

\* bool ^ bool: both operands are evaluated, in an order the build chooses
\* (rl: the right operand first)
fn_xor(t, p0, p1, rl) ==
    LET first == IF rl THEN matches(p1, t, rl) ELSE matches(p0, t, rl)
        second == IF rl THEN matches(p0, t, rl) ELSE matches(p1, t, rl)
    IN  IF first.aborted THEN first
        ELSE IF second.aborted THEN Then(first, second)
        ELSE Ret(first.value # second.value, first.trace \o second.trace)

any(T) == [T |-> T, fn |-> "any"]

fn_any(t) == Ret(TRUE, <<>>)

named(T, name) == [T |-> T, fn |-> "named", p0 |-> name]

\* !strcmp(a, b): the two strings are equal
fn_named(t, n) == Ret(get_name(t) = n, <<>>)

-----------------------------------------------------------------------------
(* Instruction predicates *)

new_instance(predicate) == [T |-> IRInstruction, fn |-> "new_instance", p0 |-> predicate]

fn_new_instance(insn, p, rl) ==
    IF opcode(insn) = NEW_INSTANCE
    THEN matches(p, insn, rl)
    ELSE Ret(FALSE, <<>>)

\* fn_invoke_direct without the /range flavor
fn_invoke_direct_norange(insn, p, rl) ==
    IF opcode(insn) = INVOKE_DIRECT
    THEN matches(p, insn, rl)
    ELSE Ret(FALSE, <<>>)

invoke_direct(predicate) == [T |-> IRInstruction, fn |-> "invoke_direct", p0 |-> predicate]

fn_invoke_direct(insn, p, rl) ==
    IF opcode(insn) = INVOKE_DIRECT \/ opcode(insn) = INVOKE_DIRECT_RANGE
    THEN matches(p, insn, rl)
    ELSE Ret(FALSE, <<>>)

invoke_static(predicate) == [T |-> IRInstruction, fn |-> "invoke_static", p0 |-> predicate]

fn_invoke_static(insn, p, rl) ==
    IF opcode(insn) = INVOKE_STATIC \/ opcode(insn) = INVOKE_STATIC_RANGE
    THEN matches(p, insn, rl)
    ELSE Ret(FALSE, <<>>)

invoke(predicate) == [T |-> IRInstruction, fn |-> "invoke", p0 |-> predicate]

fn_invoke(insn, p, rl) ==
    AndAlso(Ret(is_invoke(opcode(insn)), <<>>), matches(p, insn, rl))

\* invoke(): invoke(any<IRInstruction>())
invoke0 == invoke(any(IRInstruction))

is_opcode(opc) == [T |-> IRInstruction, fn |-> "is_opcode", p0 |-> opc]

fn_is_opcode(insn, opc) == Ret(opcode(insn) = opc, <<>>)

\* fn_opcode_method answering false where it should assert
fn_opcode_method_false(insn, p, rl) ==
    IF ~has_method(insn)
    THEN Ret(FALSE, <<>>)
    ELSE matches(p, get_method(insn), rl)

opcode_method(predicate) == [T |-> IRInstruction, fn |-> "opcode_method", p0 |-> predicate]

fn_opcode_method(insn, p, rl) ==
    IF ~has_method(insn)
    THEN Fatal("always_assert", <<>>)
    ELSE matches(p, get_method(insn), rl)

-----------------------------------------------------------------------------
(* The sequence matcher *)

\* size_t is unsigned: a - b wraps around below zero.  The modulus stands
\* for 2^64; every value above the longest stream gives the same runs.
SizeModulus == 1073741824

size_t_sub(a, b) == (a - b) % SizeModulus

RECURSIVE matches_at(_, _, _, _, _)

\* insns_matcher<T, N>::matches_at(at, insns, t); the base case is N = the
\* length of the tuple.  at is 0-based, as N: insns.at(at) is insns[at + 1].
matches_at(at, insns, t, N, rl) ==
    IF N = Len(t)
    THEN Ret(TRUE, <<>>)
    ELSE IF at >= Len(insns)
         THEN Fatal("out_of_range", <<>>)
         ELSE AndAlso(matches(t[N + 1], insns[at + 1], rl),
                      matches_at(at + 1, insns, t, N + 1, rl))

RECURSIVE has_opcodes_loop_short(_, _, _, _, _)

\* has_opcodes_loop with i < bound: the last start offset is not tried
has_opcodes_loop_short(i, bound, insns, t, rl) ==
    IF i < bound
    THEN OrElse(matches_at(i, insns, t, 0, rl),
                has_opcodes_loop_short(i + 1, bound, insns, t, rl))
    ELSE Ret(FALSE, <<>>)

RECURSIVE has_opcodes_loop(_, _, _, _, _)

\* for (size_t i = 0; i <= bound; ++i) if (matches_at(i, insns, t)) return true;
\* falling out of the loop reaches the final return false
has_opcodes_loop(i, bound, insns, t, rl) ==
    IF i <= bound
    THEN OrElse(matches_at(i, insns, t, 0, rl),
                has_opcodes_loop(i + 1, bound, insns, t, rl))
    ELSE Ret(FALSE, <<>>)

\* fn_has_opcodes without the test insns.size() < N before the loop
fn_has_opcodes_nocheck(meth, t, rl) ==
    LET code == get_code(meth)
        N == Len(t)
        insns == InstructionIterable(code)
    IN  IF ~code.null
        THEN has_opcodes_loop(0, size_t_sub(Len(insns), N), insns, t, rl)
        ELSE Ret(FALSE, <<>>)

has_opcodes(tuple) == [T |-> DexMethod, fn |-> "has_opcodes", p0 |-> tuple]

fn_has_opcodes(meth, t, rl) ==
    LET code == get_code(meth)
        N == Len(t)
        insns == InstructionIterable(code)
    IN  IF ~code.null
        THEN IF Len(insns) < N
             THEN Ret(FALSE, <<>>)
             ELSE has_opcodes_loop(0, size_t_sub(Len(insns), N), insns, t, rl)
        ELSE Ret(FALSE, <<>>)

-----------------------------------------------------------------------------
(* Member quantifiers.  The loops over get_vmethods() and over             *)
(* get_dmethods() are the same text in the source; each loop below is the  *)
(* body shared by the two, from member k on, with the count c so far.      *)

RECURSIVE any_loop(_, _, _, _)

any_loop(members, k, p, rl) ==
    IF k > Len(members)
    THEN Ret(FALSE, <<>>)
    ELSE OrElse(matches(p, members[k], rl), any_loop(members, k + 1, p, rl))

RECURSIVE all_loop(_, _, _, _)

all_loop(members, k, p, rl) ==
    IF k > Len(members)
    THEN Ret(TRUE, <<>>)
    ELSE AndAlso(matches(p, members[k], rl), all_loop(members, k + 1, p, rl))

RECURSIVE at_most_n_loop_ge(_, _, _, _, _, _)

\* at_most_n_loop with c >= n for c > n
at_most_n_loop_ge(members, k, c, n, p, rl) ==
    IF k > Len(members)
    THEN Ret(TRUE, <<>>)
    ELSE LET a == matches(p, members[k], rl)
             c1 == IF a.value THEN c + 1 ELSE c
         IN  IF a.aborted THEN a
             ELSE IF c1 >= n THEN Ret(FALSE, a.trace)
             ELSE Then(a, at_most_n_loop_ge(members, k + 1, c1, n, p, rl))

RECURSIVE at_most_n_loop(_, _, _, _, _, _)

at_most_n_loop(members, k, c, n, p, rl) ==
    IF k > Len(members)
    THEN Ret(TRUE, <<>>)
    ELSE LET a == matches(p, members[k], rl)
             c1 == IF a.value THEN c + 1 ELSE c
         IN  IF a.aborted THEN a
             ELSE IF c1 > n THEN Ret(FALSE, a.trace)
             ELSE Then(a, at_most_n_loop(members, k + 1, c1, n, p, rl))

RECURSIVE exactly_n_loop_early(_, _, _, _, _, _)

\* exactly_n_loop returning true as soon as the count reaches n
exactly_n_loop_early(members, k, c, n, p, rl) ==
    IF k > Len(members)
    THEN Ret(c = n, <<>>)
    ELSE LET a == matches(p, members[k], rl)
             c1 == IF a.value THEN c + 1 ELSE c
         IN  IF a.aborted THEN a
             ELSE IF c1 = n THEN Ret(TRUE, a.trace)
             ELSE Then(a, exactly_n_loop_early(members, k + 1, c1, n, p, rl))

RECURSIVE exactly_n_loop(_, _, _, _, _, _)

exactly_n_loop(members, k, c, n, p, rl) ==
    IF k > Len(members)
    THEN Ret(c = n, <<>>)
    ELSE LET a == matches(p, members[k], rl)
             c1 == IF a.value THEN c + 1 ELSE c
         IN  IF a.aborted THEN a
             ELSE Then(a, exactly_n_loop(members, k + 1, c1, n, p, rl))

RECURSIVE at_least_n_loop(_, _, _, _, _, _)

at_least_n_loop(members, k, c, n, p, rl) ==
    IF k > Len(members)
    THEN Ret(FALSE, <<>>)
    ELSE LET a == matches(p, members[k], rl)
             c1 == IF a.value THEN c + 1 ELSE c
         IN  IF a.aborted THEN a
             ELSE IF c1 >= n THEN Ret(TRUE, a.trace)
             ELSE Then(a, at_least_n_loop(members, k + 1, c1, n, p, rl))

any_vmethods(predicate) == [T |-> DexClass, fn |-> "any_vmethods", p0 |-> predicate]

fn_any_vmethods(cls, p, rl) == any_loop(get_vmethods(cls), 1, p, rl)

all_vmethods(predicate) == [T |-> DexClass, fn |-> "all_vmethods", p0 |-> predicate]

fn_all_vmethods(cls, p, rl) == all_loop(get_vmethods(cls), 1, p, rl)

at_most_n_vmethods(number, predicate) ==
    [T |-> DexClass, fn |-> "at_most_n_vmethods", p0 |-> number, p1 |-> predicate]

fn_at_most_n_vmethods(cls, n, p, rl) ==
    at_most_n_loop(get_vmethods(cls), 1, 0, n, p, rl)

exactly_n_vmethods(number, predicate) ==
    [T |-> DexClass, fn |-> "exactly_n_vmethods", p0 |-> number, p1 |-> predicate]

fn_exactly_n_vmethods(cls, n, p, rl) ==
    exactly_n_loop(get_vmethods(cls), 1, 0, n, p, rl)

at_least_n_vmethods(number, predicate) ==
    [T |-> DexClass, fn |-> "at_least_n_vmethods", p0 |-> number, p1 |-> predicate]

fn_at_least_n_vmethods(cls, n, p, rl) ==
    at_least_n_loop(get_vmethods(cls), 1, 0, n, p, rl)

any_dmethods(predicate) == [T |-> DexClass, fn |-> "any_dmethods", p0 |-> predicate]

fn_any_dmethods(cls, p, rl) == any_loop(get_dmethods(cls), 1, p, rl)

all_dmethods(predicate) == [T |-> DexClass, fn |-> "all_dmethods", p0 |-> predicate]

fn_all_dmethods(cls, p, rl) == all_loop(get_dmethods(cls), 1, p, rl)

at_most_n_dmethods(num, predicate) ==
    [T |-> DexClass, fn |-> "at_most_n_dmethods", p0 |-> num, p1 |-> predicate]

fn_at_most_n_dmethods(cls, n, p, rl) ==
    at_most_n_loop(get_dmethods(cls), 1, 0, n, p, rl)

exactly_n_dmethods(num, predicate) ==
    [T |-> DexClass, fn |-> "exactly_n_dmethods", p0 |-> num, p1 |-> predicate]

fn_exactly_n_dmethods(cls, n, p, rl) ==
    exactly_n_loop(get_dmethods(cls), 1, 0, n, p, rl)

at_least_n_dmethods(num, predicate) ==
    [T |-> DexClass, fn |-> "at_least_n_dmethods", p0 |-> num, p1 |-> predicate]

fn_at_least_n_dmethods(cls, n, p, rl) ==
    at_least_n_loop(get_dmethods(cls), 1, 0, n, p, rl)

-----------------------------------------------------------------------------
(* Membership, projection to the class, policy oracles *)

\* in<T, C>(const C& container), C deduced from the argument: the struct's
\* member p0 has type C, so the factory stores a copy of the container
in(T, c) == [T |-> T, fn |-> "in", p0 |-> c]

\* fn_in looking the entity up in the caller's container, as a match_t
\* holding a reference to it would
fn_in_live(t, c) == Ret(t \in container, <<>>)

\* c.find(t) != c.end(), on the struct's own p0
fn_in(t, c) == Ret(t \in c, <<>>)

\* fn_as_class with the null test inverted
fn_as_class_inverted(t, p, rl) ==
    LET cls == type_class(t)
    IN  OrElse(Ret(cls = Null, <<>>), matches(p, Class(cls), rl))

as_class(T, predicate) == [T |-> T, fn |-> "as_class", p0 |-> predicate]

fn_as_class(t, p, rl) ==
    LET cls == type_class(t)
    IN  AndAlso(Ret(cls # Null, <<>>), matches(p, Class(cls), rl))

\* the helpers of ReachableClasses.h the adapters call
can_delete_helper(t) == t \in oracle.can_delete

can_rename_helper(t) == t \in oracle.can_rename

keep_helper(t) == t \in oracle.keep

is_seed_helper(t) == t \in oracle.is_seed

can_delete(T) == [T |-> T, fn |-> "can_delete"]

fn_can_delete(t) == Ret(can_delete_helper(t), <<>>)

can_rename(T) == [T |-> T, fn |-> "can_rename"]

fn_can_rename(t) == Ret(can_rename_helper(t), <<>>)

keep(T) == [T |-> T, fn |-> "keep"]

fn_keep(t) == Ret(keep_helper(t), <<>>)

is_seed(T) == [T |-> T, fn |-> "is_seed"]

fn_is_seed(t) == Ret(is_seed_helper(t), <<>>)

-----------------------------------------------------------------------------
(* match_t<T, P, N>::matches: fn(t), fn(t, p0) or fn(t, p0, p1) *)

Dispatch(p, t, rl) ==
    CASE p.fn = "operator!" -> fn_not(t, p.p0, rl)
      [] p.fn = "operator||" -> fn_or(t, p.p0, p.p1, rl)
      [] p.fn = "operator&&" -> fn_and(t, p.p0, p.p1, rl)
      [] p.fn = "operator^" -> fn_xor(t, p.p0, p.p1, rl)
      [] p.fn = "any" -> fn_any(t)
      [] p.fn = "named" -> fn_named(t, p.p0)
      [] p.fn = "new_instance" -> fn_new_instance(t, p.p0, rl)
      [] p.fn = "invoke_direct" -> fn_invoke_direct(t, p.p0, rl)
      [] p.fn = "invoke_static" -> fn_invoke_static(t, p.p0, rl)
      [] p.fn = "invoke" -> fn_invoke(t, p.p0, rl)
      [] p.fn = "is_opcode" -> fn_is_opcode(t, p.p0)
      [] p.fn = "opcode_method" -> fn_opcode_method(t, p.p0, rl)
      [] p.fn = "has_opcodes" -> fn_has_opcodes(t, p.p0, rl)
      [] p.fn = "any_vmethods" -> fn_any_vmethods(t, p.p0, rl)
      [] p.fn = "all_vmethods" -> fn_all_vmethods(t, p.p0, rl)
      [] p.fn = "at_most_n_vmethods" -> fn_at_most_n_vmethods(t, p.p0, p.p1, rl)
      [] p.fn = "exactly_n_vmethods" -> fn_exactly_n_vmethods(t, p.p0, p.p1, rl)
      [] p.fn = "at_least_n_vmethods" -> fn_at_least_n_vmethods(t, p.p0, p.p1, rl)
      [] p.fn = "any_dmethods" -> fn_any_dmethods(t, p.p0, rl)
      [] p.fn = "all_dmethods" -> fn_all_dmethods(t, p.p0, rl)
      [] p.fn = "at_most_n_dmethods" -> fn_at_most_n_dmethods(t, p.p0, p.p1, rl)
      [] p.fn = "exactly_n_dmethods" -> fn_exactly_n_dmethods(t, p.p0, p.p1, rl)
      [] p.fn = "at_least_n_dmethods" -> fn_at_least_n_dmethods(t, p.p0, p.p1, rl)
      [] p.fn = "in" -> fn_in(t, p.p0)
      [] p.fn = "as_class" -> fn_as_class(t, p.p0, rl)
      [] p.fn = "can_delete" -> fn_can_delete(t)
      [] p.fn = "can_rename" -> fn_can_rename(t)
      [] p.fn = "keep" -> fn_keep(t)
      [] p.fn = "is_seed" -> fn_is_seed(t)

matches(p, t, rl) ==
    LET r == Dispatch(p, t, rl)
    IN  [r EXCEPT !.trace = <<[fn |-> p.fn, t |-> t]>> \o @]

-----------------------------------------------------------------------------
(* The pass: construction, evaluation, and what the pass changes between *)

NoPred == [T |-> "none", fn |-> "none"]

NoEval == [none |-> TRUE]

\* the subject and the outcome of the last evaluation
subject == last.subject

result == last.result

\* a factory call: the pass now holds the match_t value p
Construct(p) ==
    /\ pc = "idle"
    /\ pred' = p
    /\ pc' = "built"
    /\ UNCHANGED <<graph, oracle, container, last, prev>>

\* Evaluate with a lookup that inserts the key it misses (operator[] for
\* find): the evaluation writes the predicate's bound container
Evaluate_inserting(t, rl) ==
    /\ pc \in {"built", "evaluated"}
    /\ t.kind = pred.T
    /\ last' = [none |-> FALSE, subject |-> t, graph |-> graph,
                oracle |-> oracle, result |-> matches(pred, t, rl)]
    /\ prev' = last
    /\ pc' = IF last'.result.aborted THEN "aborted" ELSE "evaluated"
    /\ pred' = IF pred.fn = "in" THEN [pred EXCEPT !.p0 = @ \cup {t}] ELSE pred
    /\ UNCHANGED <<graph, oracle, container>>

\* pred.matches(t), t of the predicate's kind.  matches is a const member
\* taking const T*: it writes neither the entities nor the struct.
Evaluate(t, rl) ==
    /\ pc \in {"built", "evaluated"}
    /\ t.kind = pred.T
    /\ last' = [none |-> FALSE, subject |-> t, graph |-> graph,
                oracle |-> oracle, result |-> matches(pred, t, rl)]
    /\ prev' = last
    /\ pc' = IF last'.result.aborted THEN "aborted" ELSE "evaluated"
    /\ UNCHANGED <<graph, oracle, container, pred>>

\* the pass adds an entity to its own container
Insert(e) ==
    /\ pc # "aborted"
    /\ e \notin container
    /\ container' = container \cup {e}
    /\ UNCHANGED <<graph, oracle, pred, last, prev, pc>>

\* the pass renames a method of the graph
Rename(m, n) ==
    /\ pc # "aborted"
    /\ graph.name[m] # n
    /\ graph' = [graph EXCEPT !.name[m] = n]
    /\ UNCHANGED <<oracle, container, pred, last, prev, pc>>

\* every entity of the graph
Entities ==
    {Insn(i) : i \in DOMAIN graph.insn} \cup {Method(m) : m \in DOMAIN graph.name}
        \cup {Class(c) : c \in DOMAIN graph.vmethods}
        \cup {Type(t) : t \in DOMAIN graph.type_class}

-----------------------------------------------------------------------------
(* Entity graphs and predicates the specifications draw from *)

Names == {"foo", "bar"}

NullCode == [null |-> TRUE, insns |-> <<>>]

Code(s) == [null |-> FALSE, insns |-> s]

\* two methods foo and bar without a body, nothing else
BaseGraph ==
    [insn |-> <<>>, code |-> <<NullCode, NullCode>>, name |-> <<"foo", "bar">>,
     vmethods |-> <<>>, dmethods |-> <<>>, type_class |-> <<>>]

NoOracle == [can_delete |-> {}, can_rename |-> {}, keep |-> {}, is_seed |-> {}]

Idle ==
    /\ pred = NoPred
    /\ last = NoEval
    /\ prev = NoEval
    /\ pc = "idle"

\* an instruction: its opcode and its method operand, which the invoke
\* family carries and no other opcode does
InsnValues ==
    {[op |-> op, method |-> m] : op \in InvokeOpcodes, m \in 1..2}
        \cup {[op |-> op, method |-> Null] : op \in DexOpcode \ InvokeOpcodes}

MethodPreds ==
    {any(DexMethod), named(DexMethod, "foo"), operator_not(named(DexMethod, "foo"))}

InsnAtoms ==
    {any(IRInstruction), invoke0, is_opcode(NEW_INSTANCE),
     opcode_method(named(DexMethod, "foo"))}

RECURSIVE InsnPreds(_)

\* the atoms under at most d of operator! and the family factories
InsnPreds(d) ==
    IF d = 0
    THEN InsnAtoms
    ELSE LET S == InsnPreds(d - 1)
         IN  S \cup {operator_not(p) : p \in S}
               \cup {new_instance(p) : p \in S}
               \cup {invoke_direct(p) : p \in S}
               \cup {invoke_static(p) : p \in S}
               \cup {invoke(p) : p \in S}

\* those, and the binary combinators over operands one level shallower
InsnPool ==
    LET S == InsnPreds(MaxDepth - 1)
    IN  InsnPreds(MaxDepth)
          \cup {operator_or(p, q) : p \in S, q \in S}
          \cup {operator_and(p, q) : p \in S, q \in S}
          \cup {operator_xor(p, q) : p \in S, q \in S}

\* the instructions a stream is made of, and the predicates of a tuple
StreamInsns ==
    {[op |-> NEW_INSTANCE, method |-> Null], [op |-> INVOKE_DIRECT, method |-> 2],
     [op |-> RETURN_VOID, method |-> Null]}

Streams == UNION {[1..L -> StreamInsns] : L \in 0..MaxLen}

TupleElems ==
    {any(IRInstruction), is_opcode(NEW_INSTANCE), invoke_direct(any(IRInstruction)),
     is_opcode(RETURN_VOID)}

SeqPool == {has_opcodes(t) : t \in UNION {[1..K -> TupleElems] : K \in 0..MaxK}}

QuantPool ==
    UNION {{any_vmethods(p), all_vmethods(p), any_dmethods(p), all_dmethods(p)}
               : p \in MethodPreds}
        \cup UNION {{at_most_n_vmethods(n, p), exactly_n_vmethods(n, p),
                     at_least_n_vmethods(n, p), at_most_n_dmethods(n, p),
                     exactly_n_dmethods(n, p), at_least_n_dmethods(n, p)}
                        : n \in 0..MaxN, p \in MethodPreds}

ClassPreds ==
    {any(DexClass), operator_not(any(DexClass)), can_delete(DexClass),
     can_rename(DexClass), keep(DexClass), is_seed(DexClass),
     any_vmethods(named(DexMethod, "foo"))}

\* the type predicates a pass holding the container c can construct
TypePool(c) ==
    {in(DexType, c), operator_not(in(DexType, c)),
     operator_and(in(DexType, c), as_class(DexType, keep(DexClass)))}
        \cup {as_class(DexType, p) : p \in ClassPreds}

OracleFamily ==
    {NoOracle,
     [can_delete |-> {Class(1)}, can_rename |-> {Class(1)}, keep |-> {}, is_seed |-> {}],
     [can_delete |-> {}, can_rename |-> {}, keep |-> {Class(1)}, is_seed |-> {Class(1)}]}

-----------------------------------------------------------------------------
(* Spec: a pass over types, with its container and the policy oracle *)

Init ==
    /\ \E c \in {Null, 1} :
          graph = [BaseGraph EXCEPT !.vmethods = << <<1>> >>, !.dmethods = << <<2>> >>,
                                    !.type_class = <<1, c>>]
    /\ oracle \in OracleFamily
    /\ container \in SUBSET {Type(1), Type(2)}
    /\ Idle

Next ==
    \/ \E p \in TypePool(container) : Construct(p)
    \/ \E e \in {Type(1), Type(2)} : Insert(e)
    \/ \E n \in Names : Rename(1, n)
    \/ \E t \in Entities, rl \in BOOLEAN : Evaluate(t, rl)

Spec == Init /\ [][Next]_vars

-----------------------------------------------------------------------------
(* SpecInsn: instruction predicates and combinators against one instruction *)

InitInsn ==
    /\ \E i \in InsnValues : graph = [BaseGraph EXCEPT !.insn = <<i>>]
    /\ oracle = NoOracle
    /\ container = {}
    /\ Idle

NextInsn ==
    \/ \E p \in InsnPool : Construct(p)
    \/ \E t \in Entities, rl \in BOOLEAN : Evaluate(t, rl)

SpecInsn == InitInsn /\ [][NextInsn]_vars

-----------------------------------------------------------------------------
(* SpecSeq: has_opcodes against a method with every stream up to MaxLen *)

InitSeq ==
    /\ \/ graph = BaseGraph
       \/ \E s \in Streams :
             graph = [BaseGraph EXCEPT !.insn = s,
                                       !.code[1] = Code([k \in 1..Len(s) |-> k])]
    /\ oracle = NoOracle
    /\ container = {}
    /\ Idle

NextSeq ==
    \/ \E p \in SeqPool : Construct(p)
    \/ \E t \in Entities, rl \in BOOLEAN : Evaluate(t, rl)

SpecSeq == InitSeq /\ [][NextSeq]_vars

-----------------------------------------------------------------------------
(* SpecQuant: the member quantifiers against a class with every pair of    *)
(* member lists up to MaxMembers                                           *)

InitQuant ==
    /\ \E a \in 0..MaxMembers, b \in 0..MaxMembers :
          \E names \in [1..(a + b) -> Names] :
             graph = [BaseGraph EXCEPT !.name = names,
                                       !.code = [k \in 1..(a + b) |-> NullCode],
                                       !.vmethods = <<[k \in 1..a |-> k]>>,
                                       !.dmethods = <<[k \in 1..b |-> a + k]>>]
    /\ oracle = NoOracle
    /\ container = {}
    /\ Idle

NextQuant ==
    \/ \E p \in QuantPool : Construct(p)
    \/ \E t \in Entities, rl \in BOOLEAN : Evaluate(t, rl)

SpecQuant == InitQuant /\ [][NextQuant]_vars

-----------------------------------------------------------------------------
(* What the claims are stated with *)

\* an evaluation has just run and nothing it read has changed since
Evaluated ==
    /\ pc \in {"evaluated", "aborted"}
    /\ last.graph = graph
    /\ last.oracle = oracle

\* the outcome of p.matches(t) in the current state
Outcome(p, t) == matches(p, t, FALSE)

\* p.matches(t) returns true
Accepts(p, t) == ~Outcome(p, t).aborted /\ Outcome(p, t).value

\* two evaluations end alike: both fail, or both return the same boolean
SameOutcome(a, b) ==
    /\ a.aborted = b.aborted
    /\ ~a.aborted => a.value = b.value

\* the number of members that satisfy p
Count(members, p) == Cardinality({k \in DOMAIN members : Accepts(p, members[k])})

\* the member list a quantifier named fn walks
MembersOf(fn, cls) ==
    IF fn \in {"any_vmethods", "all_vmethods", "at_most_n_vmethods",
               "exactly_n_vmethods", "at_least_n_vmethods"}
    THEN get_vmethods(cls)
    ELSE get_dmethods(cls)

\* some run of Len(t) consecutive instructions of the method's stream
\* satisfies the predicates of t pairwise, in order
WindowMatch(meth, t) ==
    /\ ~get_code(meth).null
    /\ LET insns == InstructionIterable(get_code(meth))
       IN  \E i \in 0..(Len(insns) - Len(t)) :
              \A j \in 0..(Len(t) - 1) : Accepts(t[j + 1], insns[i + j + 1])

-----------------------------------------------------------------------------
(* C1 *)

\* C1: has_opcodes returns true iff the method has a body and some start
\* offset i in 0..length-K has predicate[j] accept instruction[i+j] for every
\* j in [0,K); it returns false without a body, with fewer than K
\* instructions, and when no offset succeeds.
C1_HasOpcodes ==
    (Evaluated /\ pred.fn = "has_opcodes") =>
        /\ ~result.aborted
        /\ result.value = WindowMatch(subject, pred.p0)

\* the stream [A, B, C] against [p0, p1], p0 matching only B and p1 only C:
\* true, by the match at offset 1
C1_Witness ==
    /\ Evaluated
    /\ pred = has_opcodes(<<invoke_direct(any(IRInstruction)), is_opcode(RETURN_VOID)>>)
    /\ subject = Method(1)
    /\ ~get_code(subject).null
    /\ [k \in 1..Len(graph.insn) |-> graph.insn[k].op]
           = <<NEW_INSTANCE, INVOKE_DIRECT, RETURN_VOID>>
    /\ result.value = TRUE

-----------------------------------------------------------------------------
(* C2 *)

\* C2: at_least_n_dmethods(n, p) and at_least_n_vmethods(n, p) are true iff the
\* number of members that satisfy p is >= n; so with n = 0 they are true for
\* every class, also one whose list is empty.
C2_AtLeastN ==
    (Evaluated /\ pred.fn \in {"at_least_n_dmethods", "at_least_n_vmethods"}) =>
        /\ ~result.aborted
        /\ result.value = (Count(MembersOf(pred.fn, subject), pred.p1) >= pred.p0)

-----------------------------------------------------------------------------
(* C3 *)

\* C3, as claimed: construct in(container) while e is not in the container,
\* add e to the caller's container, evaluate against e: the result is true.
C3_LiveMembership ==
    (Evaluated /\ pred.fn = "in" /\ subject \notin pred.p0 /\ subject \in container) =>
        result.value = TRUE

\* C3, amended: the predicate holds the copy of the container made at
\* construction, and the evaluation answers by that copy, whatever the
\* caller's container holds by then; after the sequence above it is false.
C3_SnapshotMembership ==
    (Evaluated /\ pred.fn = "in") =>
        /\ ~result.aborted
        /\ result.value = (subject \in pred.p0)
        /\ (subject \notin pred.p0 /\ subject \in container) => result.value = FALSE

\* the sequence of the claim has run: e was added after construction
C3_Witness ==
    /\ Evaluated
    /\ pred.fn = "in"
    /\ subject \notin pred.p0
    /\ subject \in container
    /\ result.value = FALSE

-----------------------------------------------------------------------------
(* C4 *)

\* C4: wherever the operands return, !p returns the negation of p, p && q
\* the conjunction, p || q the disjunction, p ^ q true iff exactly one of the
\* two is true; any<K>() is true for every subject.
C4_Combinators ==
    Evaluated =>
        /\ pred.fn = "any" => (~result.aborted /\ result.value = TRUE)
        /\ (pred.fn = "operator!" /\ ~Outcome(pred.p0, subject).aborted) =>
               /\ ~result.aborted
               /\ result.value = ~Outcome(pred.p0, subject).value
        /\ (/\ pred.fn \in {"operator&&", "operator||", "operator^"}
            /\ ~Outcome(pred.p0, subject).aborted
            /\ ~Outcome(pred.p1, subject).aborted) =>
               LET a == Outcome(pred.p0, subject).value
                   b == Outcome(pred.p1, subject).value
               IN  /\ ~result.aborted
                   /\ pred.fn = "operator&&" => result.value = (a /\ b)
                   /\ pred.fn = "operator||" => result.value = (a \/ b)
                   /\ pred.fn = "operator^" =>
                          result.value = ((a /\ ~b) \/ (~a /\ b))

\* p ^ q evaluated where exactly one operand is true
C4_Witness ==
    /\ Evaluated
    /\ pred.fn = "operator^"
    /\ ~result.aborted
    /\ Accepts(pred.p0, subject)
    /\ ~Outcome(pred.p1, subject).aborted
    /\ ~Accepts(pred.p1, subject)
    /\ result.value = TRUE

-----------------------------------------------------------------------------
(* C5 *)

\* C5: at_most_n_vmethods(n, p) and at_most_n_dmethods(n, p) are true iff the
\* number of members that satisfy p, counted over the whole list, is <= n;
\* leaving the loop early does not change that.
C5_AtMostN ==
    (Evaluated /\ pred.fn \in {"at_most_n_vmethods", "at_most_n_dmethods"}) =>
        /\ ~result.aborted
        /\ result.value = (Count(MembersOf(pred.fn, subject), pred.p1) <= pred.p0)

\* the loop was left before the last member was tested
C5_Witness ==
    /\ Evaluated
    /\ pred.fn = "at_most_n_vmethods"
    /\ Len(result.trace) < 1 + Len(get_vmethods(subject))
    /\ result.value = FALSE

-----------------------------------------------------------------------------
(* C6 *)

\* C6: exactly_n_*(n, p) is true iff the number of members that satisfy p is
\* n, and all_*(p) iff no member fails p; for a class without virtual methods
\* exactly_n_vmethods(0, any()) and all_vmethods(p) are true.
C6_ExactlyAll ==
    Evaluated =>
        /\ pred.fn \in {"exactly_n_vmethods", "exactly_n_dmethods"} =>
               /\ ~result.aborted
               /\ result.value = (Count(MembersOf(pred.fn, subject), pred.p1) = pred.p0)
        /\ pred.fn \in {"all_vmethods", "all_dmethods"} =>
               /\ ~result.aborted
               /\ result.value =
                      (\A k \in DOMAIN MembersOf(pred.fn, subject) :
                          Accepts(pred.p0, MembersOf(pred.fn, subject)[k]))
        /\ (/\ get_vmethods(subject) = <<>>
            /\ \/ pred.fn = "all_vmethods"
               \/ pred = exactly_n_vmethods(0, any(DexMethod))) =>
               result.value = TRUE

\* all_vmethods(p) on a class without virtual methods
C6_Witness ==
    /\ Evaluated
    /\ pred.fn = "all_vmethods"
    /\ get_vmethods(subject) = <<>>
    /\ result.value = TRUE

-----------------------------------------------------------------------------
(* C7 *)

\* the opcodes of the family a family predicate tests
Family(fn) ==
    CASE fn = "new_instance" -> {NEW_INSTANCE}
      [] fn = "invoke_direct" -> {INVOKE_DIRECT, INVOKE_DIRECT_RANGE}
      [] fn = "invoke_static" -> {INVOKE_STATIC, INVOKE_STATIC_RANGE}
      [] fn = "invoke" -> InvokeOpcodes

\* C7: new_instance(p), invoke_direct(p), invoke_static(p), invoke(p) end as
\* p.matches(i) does when i's opcode is of the family, and return false when
\* it is not, whatever p would do on i.
C7_Family ==
    (Evaluated /\ pred.fn \in {"new_instance", "invoke_direct", "invoke_static", "invoke"}) =>
        IF opcode(subject) \in Family(pred.fn)
        THEN SameOutcome(result, Outcome(pred.p0, subject))
        ELSE ~result.aborted /\ result.value = FALSE

\* the opcode is outside the family and the nested predicate alone would
\* have returned true
C7_Witness ==
    /\ Evaluated
    /\ pred.fn = "invoke_direct"
    /\ opcode(subject) \notin Family(pred.fn)
    /\ Accepts(pred.p0, subject)
    /\ result.value = FALSE

-----------------------------------------------------------------------------
(* C8 *)

\* C8: opcode_method(p) on an instruction without a method operand ends in
\* the assertion failure and yields no boolean; on one with a method operand
\* it ends as p.matches(referenced method) does.
C8_OpcodeMethod ==
    (Evaluated /\ pred.fn = "opcode_method") =>
        IF has_method(subject)
        THEN SameOutcome(result, Outcome(pred.p0, get_method(subject)))
        ELSE /\ pc = "aborted"
             /\ result.aborted
             /\ result.why = "always_assert"
             /\ "value" \notin DOMAIN result

\* opcode_method(p) was evaluated on an instruction without a method operand
C8_Witness ==
    /\ Evaluated
    /\ pred.fn = "opcode_method"
    /\ ~has_method(subject)
    /\ pc = "aborted"

-----------------------------------------------------------------------------
(* C9 *)

\* C9: as_class(p) on a type without a class definition returns false, makes
\* no call of p.matches and raises nothing; on a resolvable type it ends as
\* p.matches(resolved class) does.
C9_AsClass ==
    (Evaluated /\ pred.fn = "as_class") =>
        IF type_class(subject) = Null
        THEN /\ ~result.aborted
             /\ result.value = FALSE
             /\ result.trace = <<[fn |-> "as_class", t |-> subject]>>
        ELSE SameOutcome(result, Outcome(pred.p0, Class(type_class(subject))))

\* as_class(p) was evaluated on an unresolved type, p a predicate that is
\* true of every class
C9_Witness ==
    /\ Evaluated
    /\ pred = as_class(DexType, any(DexClass))
    /\ type_class(subject) = Null
    /\ result.value = FALSE

-----------------------------------------------------------------------------
(* C10 *)

\* the step is an evaluation
EvaluateStep == \E t \in Entities, rl \in BOOLEAN : Evaluate(t, rl)

\* two successive evaluations of the predicate against the same subject
\* that read the same entity graph and the same oracle answers end alike
Repeatable ==
    (/\ pc \in {"evaluated", "aborted"}
     /\ ~prev.none
     /\ prev.subject = last.subject
     /\ prev.graph = last.graph
     /\ prev.oracle = last.oracle) =>
        SameOutcome(prev.result, last.result)

-----------------------------------------------------------------------------
(* C11 *)

\* the instructions an evaluation passed to a predicate, in call order:
\* each was read with insns.at(position), position = id - 1 in a stream
\* laid out as 1..L
InsnReads(tr) == SelectSeq(tr, LAMBDA e : e.t.kind = IRInstruction)

\* a lower bound of the number of insns.at reads behind the calls tr: a
\* read is followed by one call on the instruction read or by several (a
\* predicate calling its nested predicate), so every change of instruction
\* along tr is a new read
Runs(tr) == Cardinality({k \in DOMAIN tr : k = 1 \/ tr[k].t # tr[k - 1].t})

\* C11: has_opcodes never reads outside the instruction stream: with a
\* stream of length L and a tuple of length K no insns.at throws and every
\* position read lies in [0, L); no more than K positions are read for each
\* of the L-K+1 start offsets; with L < K the result is false before the
\* loop, without a read; with K = 0 the result is true for every method
\* with a body, also one whose stream is empty.
C11_InBounds ==
    (Evaluated /\ pred.fn = "has_opcodes") =>
        LET L == Len(InstructionIterable(get_code(subject)))
            K == Len(pred.p0)
            reads == InsnReads(result.trace)
        IN  /\ ~result.aborted
            /\ \A k \in DOMAIN reads : reads[k].t.id - 1 \in 0..(L - 1)
            /\ L >= K => Runs(reads) <= (L - K + 1) * K
            /\ L < K => (result.value = FALSE /\ Len(reads) = 0)
            /\ (K = 0 /\ ~get_code(subject).null) =>
                   (result.value = TRUE /\ Len(reads) = 0)

\* L = K > 0: the single start offset 0 matched, and the last position of
\* the stream was read
C11_Witness ==
    /\ Evaluated
    /\ pred.fn = "has_opcodes"
    /\ ~get_code(subject).null
    /\ Len(pred.p0) > 0
    /\ Len(InstructionIterable(get_code(subject))) = Len(pred.p0)
    /\ result.value = TRUE
    /\ \E k \in DOMAIN result.trace :
          result.trace[k].t = Insn(Len(InstructionIterable(get_code(subject))))

-----------------------------------------------------------------------------
(* C12 *)

\* the predicate is invoke(opcode_method(p)) or invoke() && opcode_method(p)
GuardedProjection ==
    \/ pred.fn = "invoke" /\ pred.p0.fn = "opcode_method"
    \/ /\ pred.fn = "operator&&"
       /\ pred.p0.fn = "invoke"
       /\ pred.p0.p0.fn = "any"
       /\ pred.p1.fn = "opcode_method"

\* C12: invoke(opcode_method(p)) and invoke() && opcode_method(p), evaluated
\* on an instruction whose opcode is not of the invoke family, return false
\* and make no call of opcode_method, so its has_method assertion is not
\* reached: the family test comes first and the nested / right operand is not
\* evaluated when it fails.
C12_Guarded ==
    (Evaluated /\ GuardedProjection /\ ~is_invoke(opcode(subject))) =>
        /\ pc = "evaluated"
        /\ ~result.aborted
        /\ result.value = FALSE
        /\ \A k \in DOMAIN result.trace : result.trace[k].fn # "opcode_method"

\* invoke() && opcode_method(p) was evaluated on an instruction that is no
\* invoke and carries no method operand
C12_Witness ==
    /\ Evaluated
    /\ pred.fn = "operator&&"
    /\ GuardedProjection
    /\ ~is_invoke(opcode(subject))
    /\ ~has_method(subject)
    /\ result.value = FALSE

=============================================================================
